---- MODULE Spec2Model ----
(***************************************************************************)
(* cedit (src/cedit.c, the program of lines 1-575): the raw-mode session,  *)
(* the escape-sequence key decoder, the viewport query and the input loop, *)
(* as a state machine whose steps are the program's system calls.  Each    *)
(* action is one system call (tcgetattr, tcsetattr, ioctl, fopen/getline,  *)
(* the frame write, one read of standard input) together with all the code *)
(* that runs after it up to the next system call or to process exit.       *)
(***************************************************************************)
EXTENDS Integers, Sequences, FiniteSets, TLC

(***************************************************************************)
(* Bounds of the model.                                                    *)
(***************************************************************************)
MaxRows == 3        \* largest ws_row the window-size query reports
MaxCols == 2        \* largest ws_col the window-size query reports
MaxLineLen == 1     \* longest first line of the opened file
DrawMaxRows == 4    \* largest ws_row of the frames of SpecDraw
DrawMaxCols == 33   \* largest ws_col of the frames of SpecDraw
DrawMaxLineLen == 3 \* longest loaded line of the frames of SpecDraw
MaxAppends == 3     \* most abAppend calls on the buffer of SpecAppend

(***************************************************************************)
(* Program constants.                                                      *)
(***************************************************************************)
ARROW_LEFT == 1000
ARROW_RIGHT == 1001
ARROW_UP == 1002
ARROW_DOWN == 1003
PAGE_UP == 1004
PAGE_DOWN == 1005
HOME_KEY == 1006
END_KEY == 1007
DEL_KEY == 1008

ESC == 27           \* '\x1b'
LBRACKET == 91      \* '['
CH_O == 79          \* 'O'
TILDE == 126        \* '~'
CH_0 == 48          \* '0'
CH_9 == 57          \* '9'
CH_A == 65
CH_B == 66
CH_C == 67
CH_D == 68
CH_F == 70
CH_H == 72
CH_q == 113         \* 'q'

\* #define CTRL_KEY(k) ((k) & 0x1f)
CTRL_KEY(k) == k % 32

\* What one read(STDIN_FILENO, &c, 1) can return besides a byte.
RdTimeout == 256    \* returns 0: VTIME expired with no byte
RdEagain == 257     \* returns -1, errno == EAGAIN
RdError == 258      \* returns -1, errno != EAGAIN

NoByte == 999       \* a char of seq[] that has not been written
NoKey == 9999       \* no key event has been returned to the current call
Running == 999999   \* exitStatus while the process has not exited
CRASHED == 139      \* the process was killed instead of exiting

(***************************************************************************)
(* The bytes standard input can deliver: the quit byte, the escape byte,   *)
(* every byte the decoder compares with, every digit, one more printable   *)
(* byte ('x') and one byte above 0x7F.                                     *)
(***************************************************************************)
Digits == CH_0 .. CH_9
Bytes == {CTRL_KEY(CH_q), ESC, LBRACKET, CH_O, TILDE,
          CH_A, CH_B, CH_C, CH_D, CH_F, CH_H, 120, 195} \cup Digits
ReadResults == Bytes \cup {RdTimeout, RdEagain, RdError}
IsByte(r) == r \in Bytes

(***************************************************************************)
(* char is a signed type on some builds and an unsigned one on others:     *)
(* storing a byte above 0x7F in a char and widening the char to int gives  *)
(* the byte minus 256 where char is signed.                                *)
(***************************************************************************)
CharToInt(b, isSigned) == IF isSigned /\ b >= 128 THEN b - 256 ELSE b

(***************************************************************************)
(* struct termios: the flags the program touches and the two c_cc entries. *)
(***************************************************************************)
RawClearedFlags == {"BRKINT", "ICRNL", "INPCK", "ISTRIP", "IXON",
                    "OPOST", "ECHO", "ICANON", "ISIG", "IEXTEN"}
ZeroTermios == [flags |-> {}, vmin |-> 0, vtime |-> 0]
InitialTermios ==
    { [flags |-> RawClearedFlags, vmin |-> 1, vtime |-> 0],
      [flags |-> {"ICRNL", "OPOST", "ECHO", "ICANON", "ISIG", "CS8"},
       vmin |-> 1, vtime |-> 0] }

\* enableRawMode's derivation of raw from E.orig_termios.
MakeRaw(t) ==
    [flags |-> (t.flags \ RawClearedFlags) \cup {"CS8"}, vmin |-> 0, vtime |-> 1]

VARIABLES
    pc,           \* the system call the process is about to make, or "done"
    caller,       \* who called editorReadKey: "getWindowSize" or "editorProcessKeypress"
    charSigned,   \* whether char is signed in this build
    term,         \* the terminal's attributes
    orig,         \* E.orig_termios
    atexitReg,    \* atexit(disableRawMode) has been called
    rawSets,      \* number of successful tcsetattr(&raw)
    hookRuns,     \* number of runs of disableRawMode
    hookFailed,   \* the tcsetattr of disableRawMode failed
    exitStatus,   \* the process's exit status, Running before
    eraseCount,   \* number of "\x1b[2J" writes by die and the quit path
    homeCount,    \* number of "\x1b[H" writes by die and the quit path
    cx, cy,       \* E.cx, E.cy
    screen_rows,  \* E.screen_rows
    screen_cols,  \* E.screen_cols
    num_rows,     \* E.num_rows
    row_size,     \* E.row.size
    row_chars,    \* E.row.chars, the bytes of the loaded line
    frame,        \* the bytes the last step wrote as a frame, empty if none
    seq0, seq1,   \* seq[0], seq[1] of the running editorReadKey
    nread,        \* bytes the running (or last) editorReadKey has consumed
    rd,           \* result of the most recent read of standard input
    key,          \* the key event editorReadKey returned, NoKey before
    retryParity,  \* number, modulo 2, of the running editorReadKey's reads
                  \* of c that yielded nothing
    abuf,         \* the append buffer followed by SpecAppend, empty elsewhere
    calls         \* the abAppend calls made on abuf: <<s, len, reallocOk>> each

vars == <<pc, caller, charSigned, term, orig, atexitReg, rawSets, hookRuns,
          hookFailed, exitStatus, eraseCount, homeCount, cx, cy, screen_rows,
          screen_cols, num_rows, row_size, row_chars, frame, seq0, seq1, nread,
          rd, key, retryParity, abuf, calls>>

sessionVars == <<term, orig, atexitReg, rawSets>>
exitVars == <<hookRuns, hookFailed, exitStatus, eraseCount, homeCount>>
cursorVars == <<cx, cy>>
viewVars == <<screen_rows, screen_cols>>
docVars == <<num_rows, row_size, row_chars>>
readVars == <<seq0, seq1, nread, rd, key, retryParity>>
bufVars == <<abuf, calls>>

(***************************************************************************)
(* The state at process start: E is a zero-initialised global.             *)
(***************************************************************************)
Init ==
    /\ pc = "tcgetattr"
    /\ caller = "getWindowSize"
    /\ charSigned \in BOOLEAN
    /\ term \in InitialTermios
    /\ orig = ZeroTermios
    /\ atexitReg = FALSE
    /\ rawSets = 0
    /\ hookRuns = 0
    /\ hookFailed = FALSE
    /\ exitStatus = Running
    /\ eraseCount = 0
    /\ homeCount = 0
    /\ cx = 0
    /\ cy = 0
    /\ screen_rows = 0
    /\ screen_cols = 0
    /\ num_rows = 0
    /\ row_size = 0
    /\ row_chars = <<>>
    /\ frame = <<>>
    /\ seq0 = NoByte
    /\ seq1 = NoByte
    /\ nread = 0
    /\ rd = NoByte
    /\ key = NoKey
    /\ retryParity = 0
    /\ abuf = <<>>
    /\ calls = <<>>

(***************************************************************************)
(* exit(status): the atexit handlers run.  disableRawMode, when it is      *)
(* registered, calls tcsetattr(&E.orig_termios); when that fails it calls  *)
(* die, which writes the erase and home sequences and calls exit(1) from   *)
(* inside the handler.  A second call of exit is undefined: the C library  *)
(* either completes the exit with the nested status or kills the process.  *)
(* e and h are the erase and home counts at the call of exit.              *)
(***************************************************************************)
\* A restore from the file-scope orig_termios (line 52), which nothing fills.
RestoreTarget_Global == ZeroTermios

\* tcsetattr(STDIN_FILENO, TCSAFLUSH, &E.orig_termios) in disableRawMode.
RestoreTarget == orig

NestedExitOutcomes == {1, CRASHED}

Exit(status, e, h) ==
    /\ pc' = "done"
    /\ IF atexitReg
       THEN \E restoreOk \in BOOLEAN :
              /\ hookRuns' = hookRuns + 1
              /\ IF restoreOk
                 THEN /\ term' = RestoreTarget
                      /\ hookFailed' = hookFailed
                      /\ eraseCount' = e
                      /\ homeCount' = h
                      /\ exitStatus' = status
                 ELSE /\ term' = term
                      /\ hookFailed' = TRUE
                      /\ eraseCount' = e + 1
                      /\ homeCount' = h + 1
                      /\ exitStatus' \in NestedExitOutcomes
       ELSE /\ term' = term
            /\ UNCHANGED <<hookRuns, hookFailed>>
            /\ eraseCount' = e
            /\ homeCount' = h
            /\ exitStatus' = status

\* die(s): erase the screen, home the cursor, perror, exit(1).
die == Exit(1, eraseCount + 1, homeCount + 1)

\* enableRawMode without its call of atexit.
EnableRawMode_tcgetattr_NoAtexit ==
    /\ pc = "tcgetattr"
    /\ \E ok \in BOOLEAN :
         IF ok
         THEN /\ orig' = term
              /\ atexitReg' = FALSE
              /\ pc' = "tcsetattr"
              /\ UNCHANGED <<term, rawSets>>
              /\ UNCHANGED exitVars
         ELSE /\ die
              /\ UNCHANGED <<orig, atexitReg, rawSets>>
    /\ UNCHANGED <<caller, charSigned>>
    /\ UNCHANGED <<cursorVars, viewVars, docVars, readVars>>
    /\ frame' = <<>>
    /\ UNCHANGED bufVars

(***************************************************************************)
(* enableRawMode, first half: tcgetattr(&E.orig_termios), then atexit.     *)
(***************************************************************************)
EnableRawMode_tcgetattr ==
    /\ pc = "tcgetattr"
    /\ \E ok \in BOOLEAN :
         IF ok
         THEN /\ orig' = term
              /\ atexitReg' = TRUE
              /\ pc' = "tcsetattr"
              /\ UNCHANGED <<term, rawSets>>
              /\ UNCHANGED exitVars
         ELSE /\ die
              /\ UNCHANGED <<orig, atexitReg, rawSets>>
    /\ UNCHANGED <<caller, charSigned>>
    /\ UNCHANGED <<cursorVars, viewVars, docVars, readVars>>
    /\ frame' = <<>>
    /\ UNCHANGED bufVars

(***************************************************************************)
(* enableRawMode, second half: tcsetattr(TCSAFLUSH, &raw).                 *)
(***************************************************************************)
EnableRawMode_tcsetattr ==
    /\ pc = "tcsetattr"
    /\ \E ok \in BOOLEAN :
         IF ok
         THEN /\ term' = MakeRaw(orig)
              /\ rawSets' = rawSets + 1
              /\ pc' = "ioctl"
              /\ UNCHANGED exitVars
         ELSE /\ die
              /\ UNCHANGED rawSets
    /\ UNCHANGED <<orig, atexitReg, caller, charSigned>>
    /\ UNCHANGED <<cursorVars, viewVars, docVars, readVars>>
    /\ frame' = <<>>
    /\ UNCHANGED bufVars

(***************************************************************************)
(* initEditor: E.cx = E.cy = E.num_rows = 0, then getWindowSize.  When the *)
(* ioctl fails or reports ws_col == 0, getWindowSize writes the move to    *)
(* the bottom-right corner and calls editorReadKey (whose result it drops) *)
(* before it returns -1; getCursorPosition is never called.                *)
(***************************************************************************)
InitEditor_getWindowSize ==
    /\ pc = "ioctl"
    /\ num_rows' = 0
    /\ UNCHANGED <<row_size, row_chars>>
    /\ frame' = <<>>
    /\ UNCHANGED bufVars
    /\ \E direct \in BOOLEAN :
         IF direct
         THEN \E ws_row \in 0 .. MaxRows, ws_col \in 1 .. MaxCols :
                /\ screen_rows' = ws_row
                /\ screen_cols' = ws_col
                /\ pc' = "open"
                /\ UNCHANGED <<term, caller>>
                /\ UNCHANGED exitVars
         ELSE /\ UNCHANGED viewVars
              /\ \E written \in BOOLEAN :
                   IF written
                   THEN /\ caller' = "getWindowSize"
                        /\ pc' = "read0"
                        /\ UNCHANGED term
                        /\ UNCHANGED exitVars
                   ELSE /\ die
                        /\ UNCHANGED caller
    /\ cx' = 0
    /\ cy' = 0
    /\ UNCHANGED <<charSigned, orig, atexitReg, rawSets>>
    /\ UNCHANGED readVars

(***************************************************************************)
(* The line editorOpen stores: the first n bytes of the file's first line  *)
(* after the trailing '\n' and '\r' are dropped.  The model's files hold   *)
(* the lower-case letters in order, so that every position has its own     *)
(* byte.                                                                   *)
(***************************************************************************)
FileLine(n) == [i \in 1 .. n |-> 97 + ((i - 1) % 26)]

(***************************************************************************)
(* The append buffer and the frame.  A buffer is the sequence of its       *)
(* bytes.  In the frames of Spec, SpecLive and SpecDraw every realloc      *)
(* succeeds; SpecAppend follows a buffer through calls that fail.          *)
(***************************************************************************)
CEDIT_VERSION == <<48, 46, 48, 46, 48>>                       \* "0.0.0"

\* snprintf(welcome, sizeof(welcome), "Cedit editor -- version %s", ...)
Welcome ==
    <<67, 101, 100, 105, 116, 32, 101, 100, 105, 116, 111, 114, 32, 45, 45,
      32, 118, 101, 114, 115, 105, 111, 110, 32>> \o CEDIT_VERSION

EraseLine == <<ESC, LBRACKET, 75>>                            \* "\x1b[K"
RowSeparator == <<13, 10>>                                    \* "\r\n"
HideCursor == <<ESC, LBRACKET, 63, 50, 53, 108>>              \* "\x1b[?25l"
ShowCursor == <<ESC, LBRACKET, 63, 50, 53, 104>>              \* "\x1b[?25h"
CursorHome == <<ESC, LBRACKET, CH_H>>                         \* "\x1b[H"

\* snprintf's %d of a number that is not negative.
RECURSIVE Decimal(_)
Decimal(n) ==
    IF n < 10 THEN <<CH_0 + n>> ELSE Decimal(n \div 10) \o <<CH_0 + (n % 10)>>

\* The placement written column first.
CursorPosition_ColumnFirst(r, c) ==
    <<ESC, LBRACKET>> \o Decimal(c) \o <<59>> \o Decimal(r) \o <<CH_H>>

\* snprintf(buf, sizeof(buf), "\x1b[%d;%dH", r, c)
CursorPosition(r, c) ==
    <<ESC, LBRACKET>> \o Decimal(r) \o <<59>> \o Decimal(c) \o <<CH_H>>

\* abAppend with ab->b = realloc(ab->b, ...): a failing call loses the buffer.
abAppend_LosesBuffer(ab, s, len, reallocOk) ==
    IF reallocOk THEN ab \o SubSeq(s, 1, len) ELSE <<>>

\* abAppend(ab, s, len): the first len bytes of s go after the bytes of ab;
\* when realloc returns NULL the call returns with the buffer as it was.
abAppend(ab, s, len, reallocOk) ==
    IF reallocOk THEN ab \o SubSeq(s, 1, len) ELSE ab

\* The centring of the banner without the division by two.
Padding_NotHalved(welcome_len) == screen_cols - welcome_len

\* int padding = (E.screen_cols - welcome_len) / 2;
Padding(welcome_len) == (screen_cols - welcome_len) \div 2

\* while (padding--) abAppend(ab, " ", 1);
RECURSIVE AppendSpaces(_, _)
AppendSpaces(ab, padding) ==
    IF padding = 0 THEN ab ELSE AppendSpaces(abAppend(ab, <<32>>, 1, TRUE), padding - 1)

\* The banner row: the banner cut to the screen's width, after a '~' and
\* spaces when there is padding.
DrawWelcome(ab) ==
    LET welcome_len ==
            IF Len(Welcome) > screen_cols THEN screen_cols ELSE Len(Welcome)
        padding == Padding(welcome_len)
        marked == IF padding # 0 THEN abAppend(ab, <<TILDE>>, 1, TRUE) ELSE ab
        padded == AppendSpaces(marked, IF padding # 0 THEN padding - 1 ELSE 0)
    IN  abAppend(padded, Welcome, welcome_len, TRUE)

\* The row separator appended after every row, the last one too.
NeedsSeparator_Always(y) == TRUE

\* if (y < E.screen_rows - 1)
NeedsSeparator(y) == y < screen_rows - 1

\* if (y == E.screen_rows / 3), inside if (y >= E.num_rows)
IsWelcomeRow(y) == y = screen_rows \div 3

\* The whole line drawn, however wide the screen is.
RowLen_Whole == row_size

\* int len = E.row.size; if (len > E.screen_cols) len = E.screen_cols;
RowLen == IF row_size > screen_cols THEN screen_cols ELSE row_size

\* One pass of the loop of editorDrawRows, for row y.
DrawRow(y, ab) ==
    LET content ==
            IF y >= num_rows
            THEN IF IsWelcomeRow(y)
                 THEN DrawWelcome(ab)
                 ELSE abAppend(ab, <<TILDE>>, 1, TRUE)
            ELSE abAppend(ab, row_chars, RowLen, TRUE)
        erased == abAppend(content, EraseLine, 3, TRUE)
    IN  IF NeedsSeparator(y) THEN abAppend(erased, RowSeparator, 2, TRUE) ELSE erased

\* for (y = 0; y < E.screen_rows; y++), from row y on.
RECURSIVE DrawRowsFrom(_, _)
DrawRowsFrom(y, ab) ==
    IF y < screen_rows THEN DrawRowsFrom(y + 1, DrawRow(y, ab)) ELSE ab

editorDrawRows(ab) == DrawRowsFrom(0, ab)

\* The bytes editorRefreshScreen hands to its one write.
editorRefreshScreen ==
    LET hidden == abAppend(<<>>, HideCursor, 6, TRUE)
        homed == abAppend(hidden, CursorHome, 3, TRUE)
        drawn == editorDrawRows(homed)
        placed == abAppend(drawn, CursorPosition(cy + 1, cx + 1),
                           Len(CursorPosition(cy + 1, cx + 1)), TRUE)
    IN  abAppend(placed, ShowCursor, 6, TRUE)

(***************************************************************************)
(* main: if (argc >= 2) editorOpen(argv[1]).  editorOpen dies when fopen   *)
(* fails; otherwise it stores the first line, stripped of its trailing     *)
(* '\n' and '\r', unless getline returns -1.                               *)
(***************************************************************************)
Main_editorOpen ==
    /\ pc = "open"
    /\ \E argc \in 1 .. 2 :
         IF argc >= 2
         THEN \E opened \in BOOLEAN :
                IF opened
                THEN /\ \E linelen \in -1 .. MaxLineLen :
                          IF linelen # -1
                          THEN /\ row_size' = linelen
                               /\ row_chars' = FileLine(linelen)
                               /\ num_rows' = 1
                          ELSE UNCHANGED docVars
                     /\ pc' = "render"
                     /\ UNCHANGED term
                     /\ UNCHANGED exitVars
                ELSE /\ die
                     /\ UNCHANGED docVars
         ELSE /\ pc' = "render"
              /\ UNCHANGED docVars
              /\ UNCHANGED term
              /\ UNCHANGED exitVars
    /\ UNCHANGED <<caller, charSigned, orig, atexitReg, rawSets>>
    /\ UNCHANGED <<cursorVars, viewVars, readVars>>
    /\ frame' = <<>>
    /\ UNCHANGED bufVars

(***************************************************************************)
(* main's loop, first statement: editorRefreshScreen writes one frame.     *)
(* The call of editorProcessKeypress that follows starts editorReadKey     *)
(* with fresh locals.                                                      *)
(***************************************************************************)
Main_editorRefreshScreen ==
    /\ pc = "render"
    /\ pc' = "read0"
    /\ caller' = "editorProcessKeypress"
    /\ seq0' = NoByte
    /\ seq1' = NoByte
    /\ nread' = 0
    /\ rd' = NoByte
    /\ key' = NoKey
    /\ retryParity' = 0
    /\ frame' = editorRefreshScreen
    /\ UNCHANGED bufVars
    /\ UNCHANGED <<charSigned, sessionVars, exitVars, cursorVars, viewVars, docVars>>

(***************************************************************************)
(* editorReadKey reaches the closing brace of a function that returns int  *)
(* without executing a return statement; its caller uses the value.  The   *)
(* value is indeterminate: some byte, the quit byte, the escape byte, or a *)
(* key code.                                                               *)
(***************************************************************************)
FallOffEnd == {0, CTRL_KEY(CH_q), ESC, ARROW_DOWN, END_KEY}

\* switch (seq[1]) of the ESC '[' digit '~' branch: the values it can return.
DigitTildeKey(s1) ==
    CASE s1 = 49 -> {HOME_KEY}
      [] s1 = 51 -> {DEL_KEY}
      [] s1 = 52 -> {END_KEY}
      [] s1 = 53 -> {PAGE_UP}
      [] s1 = 54 -> {PAGE_DOWN}
      [] s1 = 55 -> {HOME_KEY}
      [] s1 = 56 -> {END_KEY}
      [] OTHER -> FallOffEnd

\* The ESC '[' letter switch with the cases 'C' and 'D' exchanged.
BracketLetterKey_Swapped(s1) ==
    CASE s1 = CH_A -> {ARROW_UP}
      [] s1 = CH_B -> {ARROW_DOWN}
      [] s1 = CH_C -> {ARROW_LEFT}
      [] s1 = CH_D -> {ARROW_RIGHT}
      [] s1 = CH_H -> {HOME_KEY}
      [] s1 = CH_F -> {END_KEY}
      [] OTHER -> FallOffEnd

\* switch (seq[1]) of the ESC '[' non-digit branch.
BracketLetterKey(s1) ==
    CASE s1 = CH_A -> {ARROW_UP}
      [] s1 = CH_B -> {ARROW_DOWN}
      [] s1 = CH_C -> {ARROW_RIGHT}
      [] s1 = CH_D -> {ARROW_LEFT}
      [] s1 = CH_H -> {HOME_KEY}
      [] s1 = CH_F -> {END_KEY}
      [] OTHER -> FallOffEnd

\* switch (seq[1]) of the ESC 'O' branch, and the return '\x1b' after it.
OLetterKey(s1) ==
    CASE s1 = CH_H -> {HOME_KEY}
      [] s1 = CH_F -> {END_KEY}
      [] OTHER -> {ESC}

\* The digit test without its upper limit.
IsDigitChar_NoUpper(s1) == s1 >= CH_0

\* if (seq[1] >= '0' && seq[1] <= '9')
IsDigitChar(s1) == s1 >= CH_0 /\ s1 <= CH_9

\* The values editorReadKey can return once seq[0] and seq[1] are read and
\* the sequence is not ESC '[' digit.
KeysAfterSeq1(s0, s1) ==
    IF s0 = LBRACKET
    THEN BracketLetterKey(s1)
    ELSE IF s0 = CH_O THEN OLetterKey(s1) ELSE FallOffEnd

\* The values editorReadKey can return once seq[2] is read.
KeysAfterSeq2(s1, s2) ==
    IF s2 = TILDE THEN DigitTildeKey(s1) ELSE FallOffEnd

\* editorMoveCursor wrapping round at the four edges.
editorMoveCursor_Wrap(k, cur) ==
    CASE k = ARROW_LEFT ->
           IF cur[1] # 0 THEN <<cur[1] - 1, cur[2]>> ELSE <<screen_cols - 1, cur[2]>>
      [] k = ARROW_RIGHT ->
           IF cur[1] # screen_cols - 1 THEN <<cur[1] + 1, cur[2]>> ELSE <<0, cur[2]>>
      [] k = ARROW_UP ->
           IF cur[2] # 0 THEN <<cur[1], cur[2] - 1>> ELSE <<cur[1], screen_rows - 1>>
      [] k = ARROW_DOWN ->
           IF cur[2] # screen_rows - 1 THEN <<cur[1], cur[2] + 1>> ELSE <<cur[1], 0>>
      [] OTHER -> cur

\* editorMoveCursor with ARROW_RIGHT and ARROW_DOWN limited one cell late.
editorMoveCursor_OffByOne(k, cur) ==
    CASE k = ARROW_LEFT ->
           IF cur[1] # 0 THEN <<cur[1] - 1, cur[2]>> ELSE cur
      [] k = ARROW_RIGHT ->
           IF cur[1] # screen_cols THEN <<cur[1] + 1, cur[2]>> ELSE cur
      [] k = ARROW_UP ->
           IF cur[2] # 0 THEN <<cur[1], cur[2] - 1>> ELSE cur
      [] k = ARROW_DOWN ->
           IF cur[2] # screen_rows THEN <<cur[1], cur[2] + 1>> ELSE cur
      [] OTHER -> cur

(***************************************************************************)
(* editorMoveCursor(key) on the cursor cur = <<cx, cy>>.                   *)
(***************************************************************************)
editorMoveCursor(k, cur) ==
    CASE k = ARROW_LEFT ->
           IF cur[1] # 0 THEN <<cur[1] - 1, cur[2]>> ELSE cur
      [] k = ARROW_RIGHT ->
           IF cur[1] # screen_cols - 1 THEN <<cur[1] + 1, cur[2]>> ELSE cur
      [] k = ARROW_UP ->
           IF cur[2] # 0 THEN <<cur[1], cur[2] - 1>> ELSE cur
      [] k = ARROW_DOWN ->
           IF cur[2] # screen_rows - 1 THEN <<cur[1], cur[2] + 1>> ELSE cur
      [] OTHER -> cur

\* One movement instead of the loop.
MoveTimes_Once(times, k, cur) ==
    IF times = 0 THEN cur ELSE editorMoveCursor(k, cur)

\* while (times--) editorMoveCursor(k);
RECURSIVE MoveTimes(_, _, _)
MoveTimes(times, k, cur) ==
    IF times = 0 THEN cur ELSE MoveTimes(times - 1, k, editorMoveCursor(k, cur))

\* The switch with END_KEY setting E.cx = E.screen_cols and HOME_KEY
\* setting E.cx = 1.
CursorAfterKey_OneBased(c) ==
    CASE c = PAGE_UP \/ c = PAGE_DOWN ->
           MoveTimes(screen_rows, IF c = PAGE_UP THEN ARROW_UP ELSE ARROW_DOWN,
                     <<cx, cy>>)
      [] c = HOME_KEY -> <<1, cy>>
      [] c = END_KEY -> <<screen_cols, cy>>
      [] c \in {ARROW_UP, ARROW_DOWN, ARROW_LEFT, ARROW_RIGHT} ->
           editorMoveCursor(c, <<cx, cy>>)
      [] OTHER -> <<cx, cy>>

\* The cursor after the switch of editorProcessKeypress, for a key other
\* than the quit key.
CursorAfterKey(c) ==
    CASE c = PAGE_UP \/ c = PAGE_DOWN ->
           MoveTimes(screen_rows, IF c = PAGE_UP THEN ARROW_UP ELSE ARROW_DOWN,
                     <<cx, cy>>)
      [] c = HOME_KEY -> <<0, cy>>
      [] c = END_KEY -> <<screen_cols - 1, cy>>
      [] c \in {ARROW_UP, ARROW_DOWN, ARROW_LEFT, ARROW_RIGHT} ->
           editorMoveCursor(c, <<cx, cy>>)
      [] OTHER -> <<cx, cy>>

\* The quit case written as case 'q'.
IsQuitKey_Plain(c) == c = CH_q

\* case CTRL_KEY('q')
IsQuitKey(c) == c = CTRL_KEY(CH_q)

\* The switch returning to a loop that reads the next key without a frame.
editorProcessKeypress_NoRender(c) ==
    IF IsQuitKey(c)
    THEN /\ Exit(0, eraseCount + 1, homeCount + 1)
         /\ UNCHANGED cursorVars
    ELSE /\ cx' = CursorAfterKey(c)[1]
         /\ cy' = CursorAfterKey(c)[2]
         /\ cy' <= MaxRows + 1
         /\ pc' = "read0"
         /\ UNCHANGED term
         /\ UNCHANGED exitVars

(***************************************************************************)
(* The switch of editorProcessKeypress on the key c: the quit key erases   *)
(* the screen, homes the cursor and calls exit(0); every other key updates *)
(* the cursor and returns to main's loop.  With a viewport of no rows the  *)
(* cursor row has no upper limit; the model stops it above MaxRows.        *)
(***************************************************************************)
editorProcessKeypress(c) ==
    IF IsQuitKey(c)
    THEN /\ Exit(0, eraseCount + 1, homeCount + 1)
         /\ UNCHANGED cursorVars
    ELSE /\ cx' = CursorAfterKey(c)[1]
         /\ cy' = CursorAfterKey(c)[2]
         /\ cy' <= MaxRows + 1
         /\ pc' = "render"
         /\ UNCHANGED term
         /\ UNCHANGED exitVars

(***************************************************************************)
(* editorReadKey returns k: to editorProcessKeypress, which dispatches on  *)
(* it, or to getWindowSize, which drops it and returns -1, so that         *)
(* initEditor dies.                                                        *)
(***************************************************************************)
KeyReturned(k) ==
    /\ key' = k
    /\ IF caller = "editorProcessKeypress"
       THEN editorProcessKeypress(k)
       ELSE /\ die
            /\ UNCHANGED cursorVars

\* editorReadKey goes on to its next read.
NextRead(next) ==
    /\ pc' = next
    /\ key' = NoKey
    /\ UNCHANGED <<term, cursorVars>>
    /\ UNCHANGED exitVars

\* A failed read after the escape byte retried instead of ending the call.
TruncatedSequence_Retry ==
    /\ pc' = pc
    /\ key' = NoKey
    /\ UNCHANGED <<term, cursorVars>>
    /\ UNCHANGED exitVars

\* if (read(STDIN_FILENO, &seq[i], 1) != 1) return '\x1b';
TruncatedSequence == KeyReturned(ESC)

\* A read of c that yields nothing ending the call with the escape key.
RetryFirstByte_AsEscape ==
    /\ KeyReturned(ESC)
    /\ retryParity' = 0

\* while ((nread = read(STDIN_FILENO, &c, 1)) != 1): the read is made again.
RetryFirstByte ==
    /\ NextRead("read0")
    /\ retryParity' = 1 - retryParity

(***************************************************************************)
(* editorReadKey, the read of c: retried on a timeout and on EAGAIN, fatal *)
(* on any other error; a byte other than the escape byte is returned.      *)
(***************************************************************************)
ReadKey_c ==
    /\ pc = "read0"
    /\ \E r \in ReadResults :
         /\ rd' = r
         /\ IF IsByte(r)
            THEN /\ nread' = nread + 1
                 /\ retryParity' = 0
                 /\ IF CharToInt(r, charSigned) = ESC
                    THEN NextRead("read1")
                    ELSE KeyReturned(CharToInt(r, charSigned))
            ELSE /\ nread' = nread
                 /\ IF r = RdError
                    THEN /\ die
                         /\ key' = NoKey
                         /\ retryParity' = 0
                         /\ UNCHANGED cursorVars
                    ELSE RetryFirstByte
    /\ UNCHANGED <<seq0, seq1>>
    /\ UNCHANGED <<caller, charSigned, orig, atexitReg, rawSets, viewVars, docVars>>
    /\ frame' = <<>>
    /\ UNCHANGED bufVars

\* editorReadKey, the read of seq[0].
ReadKey_seq0 ==
    /\ pc = "read1"
    /\ \E r \in ReadResults :
         /\ rd' = r
         /\ IF IsByte(r)
            THEN /\ nread' = nread + 1
                 /\ seq0' = CharToInt(r, charSigned)
                 /\ NextRead("read2")
            ELSE /\ nread' = nread
                 /\ seq0' = seq0
                 /\ TruncatedSequence
    /\ UNCHANGED seq1
    /\ UNCHANGED <<caller, charSigned, orig, atexitReg, rawSets, viewVars, docVars>>
    /\ frame' = <<>>
    /\ UNCHANGED bufVars
    /\ UNCHANGED retryParity

\* editorReadKey, the read of seq[1] and the dispatch on seq[0] and seq[1].
\* seq[] ends with the call that declared it.
ReadKey_seq1 ==
    /\ pc = "read2"
    /\ \E r \in ReadResults :
         /\ rd' = r
         /\ IF IsByte(r)
            THEN /\ nread' = nread + 1
                 /\ IF seq0 = LBRACKET /\ IsDigitChar(CharToInt(r, charSigned))
                    THEN /\ seq0' = seq0
                         /\ seq1' = CharToInt(r, charSigned)
                         /\ NextRead("read3")
                    ELSE /\ seq0' = NoByte
                         /\ seq1' = NoByte
                         /\ \E k \in KeysAfterSeq1(seq0, CharToInt(r, charSigned)) :
                              KeyReturned(k)
            ELSE /\ nread' = nread
                 /\ seq0' = NoByte
                 /\ seq1' = NoByte
                 /\ TruncatedSequence
    /\ UNCHANGED <<caller, charSigned, orig, atexitReg, rawSets, viewVars, docVars>>
    /\ frame' = <<>>
    /\ UNCHANGED bufVars
    /\ UNCHANGED retryParity

\* editorReadKey, the read of seq[2] in the ESC '[' digit branch.
ReadKey_seq2 ==
    /\ pc = "read3"
    /\ \E r \in ReadResults :
         /\ rd' = r
         /\ IF IsByte(r)
            THEN /\ nread' = nread + 1
                 /\ \E k \in KeysAfterSeq2(seq1, CharToInt(r, charSigned)) :
                      KeyReturned(k)
            ELSE /\ nread' = nread
                 /\ TruncatedSequence
    /\ seq0' = NoByte
    /\ seq1' = NoByte
    /\ UNCHANGED <<caller, charSigned, orig, atexitReg, rawSets, viewVars, docVars>>
    /\ frame' = <<>>
    /\ UNCHANGED bufVars
    /\ UNCHANGED retryParity

Next ==
    \/ EnableRawMode_tcgetattr
    \/ EnableRawMode_tcsetattr
    \/ InitEditor_getWindowSize
    \/ Main_editorOpen
    \/ Main_editorRefreshScreen
    \/ ReadKey_c
    \/ ReadKey_seq0
    \/ ReadKey_seq1
    \/ ReadKey_seq2

Spec == Init /\ [][Next]_vars

(***************************************************************************)
(* The program under fair scheduling: a process that can make its next     *)
(* system call eventually makes it, and the call returns (every read in    *)
(* raw mode returns within the VTIME timeout).  One build and one terminal *)
(* are followed: char is signed, the terminal starts in cooked mode with   *)
(* eight-bit characters.                                                   *)
(***************************************************************************)
LiveInit ==
    /\ Init
    /\ charSigned
    /\ "CS8" \in term.flags

SpecLive == LiveInit /\ [][Next]_vars /\ WF_vars(Next)

(***************************************************************************)
(* Frames on wider terminals.  SpecDraw starts where main is about to call *)
(* editorRefreshScreen: raw mode is on, the window-size query has stored a *)
(* viewport of up to DrawMaxRows by DrawMaxCols, editorOpen has stored no  *)
(* line or a line of up to DrawMaxLineLen bytes.  The call is the first    *)
(* one, with the cursor at the origin, or the one after an END key (ESC    *)
(* '[' 'F') typed in some row, with the cursor in the last column.         *)
(***************************************************************************)
DrawInit ==
    /\ pc = "render"
    /\ charSigned \in BOOLEAN
    /\ orig \in InitialTermios
    /\ term = MakeRaw(orig)
    /\ atexitReg = TRUE
    /\ rawSets = 1
    /\ hookRuns = 0
    /\ hookFailed = FALSE
    /\ exitStatus = Running
    /\ eraseCount = 0
    /\ homeCount = 0
    /\ screen_rows \in 0 .. DrawMaxRows
    /\ screen_cols \in 1 .. DrawMaxCols
    /\ \E first \in BOOLEAN :
         IF first
         THEN /\ caller = "getWindowSize"
              /\ cx = 0
              /\ cy = 0
              /\ nread = 0
              /\ rd = NoByte
              /\ key = NoKey
         ELSE /\ caller = "editorProcessKeypress"
              /\ cx = screen_cols - 1
              /\ cy \in 0 .. (IF screen_rows = 0 THEN 0 ELSE screen_rows - 1)
              /\ nread = 3
              /\ rd = CH_F
              /\ key = END_KEY
    /\ \E linelen \in -1 .. DrawMaxLineLen :
         IF linelen # -1
         THEN /\ num_rows = 1
              /\ row_size = linelen
              /\ row_chars = FileLine(linelen)
         ELSE /\ num_rows = 0
              /\ row_size = 0
              /\ row_chars = <<>>
    /\ frame = <<>>
    /\ seq0 = NoByte
    /\ seq1 = NoByte
    /\ retryParity = 0
    /\ abuf = <<>>
    /\ calls = <<>>

DrawNext == Main_editorRefreshScreen

SpecDraw == DrawInit /\ [][DrawNext]_vars

(***************************************************************************)
(* One append buffer through calls of abAppend whose realloc may fail.     *)
(* SpecAppend starts inside editorRefreshScreen with the buffer ABUF_INIT; *)
(* each call passes one of the chunks below with its length; the write     *)
(* hands the buffer to standard output and abFree discards it.             *)
(***************************************************************************)
AppendChunks ==
    { <<HideCursor, 6>>, <<CursorHome, 3>>, <<<<TILDE>>, 1>>, <<EraseLine, 3>>,
      <<RowSeparator, 2>>, <<Welcome, 2>> }

AppendInit ==
    /\ pc = "append"
    /\ caller = "getWindowSize"
    /\ charSigned \in BOOLEAN
    /\ orig \in InitialTermios
    /\ term = MakeRaw(orig)
    /\ atexitReg = TRUE
    /\ rawSets = 1
    /\ hookRuns = 0
    /\ hookFailed = FALSE
    /\ exitStatus = Running
    /\ eraseCount = 0
    /\ homeCount = 0
    /\ cx = 0
    /\ cy = 0
    /\ screen_rows = MaxRows
    /\ screen_cols = MaxCols
    /\ num_rows = 0
    /\ row_size = 0
    /\ row_chars = <<>>
    /\ frame = <<>>
    /\ seq0 = NoByte
    /\ seq1 = NoByte
    /\ nread = 0
    /\ rd = NoByte
    /\ key = NoKey
    /\ retryParity = 0
    /\ abuf = <<>>
    /\ calls = <<>>

\* One call abAppend(&ab, s, len) of editorRefreshScreen or editorDrawRows.
RefreshScreen_abAppend ==
    /\ pc = "append"
    /\ Len(calls) < MaxAppends
    /\ \E chunk \in AppendChunks, reallocOk \in BOOLEAN :
         /\ abuf' = abAppend(abuf, chunk[1], chunk[2], reallocOk)
         /\ calls' = Append(calls, <<chunk[1], chunk[2], reallocOk>>)
    /\ UNCHANGED <<pc, caller, charSigned, sessionVars, exitVars, cursorVars,
                   viewVars, docVars, frame, readVars>>

\* write(STDOUT_FILENO, ab.b, ab.len); abFree(&ab);
RefreshScreen_write ==
    /\ pc = "append"
    /\ frame' = abuf
    /\ abuf' = <<>>
    /\ pc' = "read0"
    /\ caller' = "editorProcessKeypress"
    /\ UNCHANGED <<charSigned, sessionVars, exitVars, cursorVars, viewVars,
                   docVars, readVars, calls>>

AppendNext ==
    \/ RefreshScreen_abAppend
    \/ RefreshScreen_write

SpecAppend == AppendInit /\ [][AppendNext]_vars

(***************************************************************************)
(* Vocabulary of the properties.                                           *)
(***************************************************************************)
QuitByte == CTRL_KEY(CH_q)
ReadPcs == {"read0", "read1", "read2", "read3"}
NavigationKeys == {ARROW_LEFT, ARROW_RIGHT, ARROW_UP, ARROW_DOWN,
                   PAGE_UP, PAGE_DOWN, HOME_KEY, END_KEY, DEL_KEY}

\* Startup has stored a viewport (initEditor returned).
ViewportAccepted == pc \in {"open", "render"} \/ caller = "editorProcessKeypress"

\* The input loop of main is running and editorReadKey is reading.
LoopReading == caller = "editorProcessKeypress" /\ pc \in ReadPcs

\* A step in which the running editorReadKey returns a key event.
KeyReturns == key = NoKey /\ key' # NoKey

\* A step whose read delivers a byte / yields nothing.
Delivered(b) == pc \in ReadPcs /\ rd' = b
NothingRead == pc \in ReadPcs /\ rd' \in {RdTimeout, RdEagain, RdError}

(***************************************************************************)
(* C1.  Once startup has accepted a viewport with rows >= 1 and cols >= 1, *)
(* the cursor stays inside it after every key event: 0 <= cx <= cols-1 and *)
(* 0 <= cy <= rows-1; and an ARROW_LEFT event at cx = 0 leaves cx = 0.     *)
(***************************************************************************)
C1_CursorInViewport ==
    /\ []((ViewportAccepted /\ screen_rows >= 1 /\ screen_cols >= 1)
            => (0 <= cx /\ cx <= screen_cols - 1 /\ 0 <= cy /\ cy <= screen_rows - 1))
    /\ [][(LoopReading /\ screen_rows >= 1 /\ screen_cols >= 1
             /\ key' = ARROW_LEFT /\ cx = 0) => cx' = 0]_vars

\* An ARROW_RIGHT event has been handled with the cursor in the bottom-right
\* corner of a viewport of at least two rows and two columns.
C1_Witness ==
    /\ pc = "render" /\ key = ARROW_RIGHT
    /\ screen_rows >= 2 /\ screen_cols >= 2
    /\ cx = screen_cols - 1 /\ cy = screen_rows - 1

(***************************************************************************)
(* C2 as stated.  Whenever the process has terminated, the terminal's      *)
(* attributes equal those tcgetattr captured in enableRawMode, or the      *)
(* untouched original attributes if the capture failed.                    *)
(***************************************************************************)
C2_RestoredAtExit_Original ==
    pc = "done" =>
        IF atexitReg THEN term = orig
        ELSE term \in InitialTermios /\ rawSets = 0

(***************************************************************************)
(* C2 as amended.  Whenever the process has terminated and the tcsetattr   *)
(* of disableRawMode did not fail, the terminal's attributes equal those   *)
(* captured by tcgetattr (or the untouched original attributes if the      *)
(* capture failed); when that tcsetattr fails the terminal keeps the       *)
(* attributes it had at the call of exit.                                  *)
(***************************************************************************)
C2_RestoredAtExit ==
    /\ [](pc = "done" /\ ~hookFailed =>
            IF atexitReg THEN term = orig
            ELSE term \in InitialTermios /\ rawSets = 0)
    /\ [][(pc' = "done" /\ hookFailed') => term' = term]_vars

\* The quit path has ended a process that had entered raw mode, and the
\* terminal is back to the captured attributes, which are not the raw ones.
C2_Witness ==
    /\ pc = "done" /\ exitStatus = 0 /\ rawSets = 1 /\ ~hookFailed
    /\ term = orig /\ term # MakeRaw(orig)

C4_OneRestorePerRun_Original ==
    pc = "done" => rawSets <= 1 /\ hookRuns = 1

(***************************************************************************)
(* C4 as amended.  Over every complete run the terminal is set to raw at   *)
(* most once; disableRawMode runs exactly once on every exit path that     *)
(* follows a successful tcgetattr (also when the tcsetattr of              *)
(* enableRawMode failed and raw mode was never entered) and not at all     *)
(* when tcgetattr failed, in which case raw mode was never entered; so     *)
(* each entry into raw mode is followed by exactly one run of the hook.    *)
(***************************************************************************)
C4_OneRestorePerRun ==
    /\ rawSets <= 1
    /\ pc # "done" => hookRuns = 0
    /\ pc = "done" =>
         /\ hookRuns = (IF atexitReg THEN 1 ELSE 0)
         /\ rawSets = 1 => hookRuns = 1
         /\ ~atexitReg => rawSets = 0

\* A run that failed in the tcsetattr of enableRawMode: raw mode was never
\* entered and the hook ran once.
C4_Witness ==
    pc = "done" /\ atexitReg /\ rawSets = 0 /\ hookRuns = 1 /\ exitStatus = 1

(***************************************************************************)
(* The key encodings of C5, as the key each one stands for.                *)
(***************************************************************************)
LetterKeys == (CH_A :> ARROW_UP) @@ (CH_B :> ARROW_DOWN) @@ (CH_C :> ARROW_RIGHT)
              @@ (CH_D :> ARROW_LEFT) @@ (CH_H :> HOME_KEY) @@ (CH_F :> END_KEY)
OKeys == (CH_H :> HOME_KEY) @@ (CH_F :> END_KEY)
DigitKeys == (49 :> HOME_KEY) @@ (51 :> DEL_KEY) @@ (52 :> END_KEY)
             @@ (53 :> PAGE_UP) @@ (54 :> PAGE_DOWN) @@ (55 :> HOME_KEY)
             @@ (56 :> END_KEY)

\* The call of editorReadKey ends in this step, having consumed n bytes.
CallEndsAfter(n) == KeyReturns /\ nread' = n /\ pc' \in {"render", "done"}

(***************************************************************************)
(* C5.  When the bytes read form complete encodings and every read         *)
(* delivers a byte, each call of editorReadKey returns the one key event   *)
(* of the encoding that starts at its first read and consumes exactly that *)
(* encoding's bytes: one byte for a non-escape byte, three for ESC '['     *)
(* letter and ESC 'O' letter, four for ESC '[' digit '~'; the next call    *)
(* starts with nothing consumed.                                           *)
(***************************************************************************)
C5_OneEventPerEncoding ==
    /\ [][(pc = "read0" /\ rd' \in Bytes \ {ESC}) =>
            CallEndsAfter(1) /\ key' % 256 = rd']_vars
    /\ [][(pc = "read2" /\ seq0 = LBRACKET /\ rd' \in DOMAIN LetterKeys) =>
            CallEndsAfter(3) /\ key' = LetterKeys[rd']]_vars
    /\ [][(pc = "read2" /\ seq0 = CH_O /\ rd' \in DOMAIN OKeys) =>
            CallEndsAfter(3) /\ key' = OKeys[rd']]_vars
    /\ [][(pc = "read3" /\ seq1 \in DOMAIN DigitKeys /\ rd' = TILDE) =>
            CallEndsAfter(4) /\ key' = DigitKeys[seq1]]_vars
    /\ [][pc' = "read0" /\ pc # "read0" => nread' = 0 /\ key' = NoKey]_vars
    /\ [](pc = "read1" => nread = 1)
    /\ [](pc = "read2" => nread = 2)
    /\ [](pc = "read3" => nread = 3)

\* ESC '[' '5' '~' has been decoded as one PAGE_UP event of four bytes.
C5_Witness ==
    pc = "render" /\ key = PAGE_UP /\ nread = 4 /\ rd = TILDE

(***************************************************************************)
(* C6 as stated.  For every byte b other than 0x1B delivered as the first  *)
(* byte of a key, editorReadKey consumes exactly that byte and returns b   *)
(* unchanged as the key event.  (Stated of the calls made by the input     *)
(* loop, which uses the returned value.)                                   *)
(***************************************************************************)
C6_SingleByteIdentity ==
    [][(LoopReading /\ pc = "read0" /\ rd' \in Bytes \ {ESC}) =>
         (key' = rd' /\ nread' = 1)]_vars

(***************************************************************************)
(* C7 as stated.  When ESC '[' d '~' is delivered, editorReadKey returns   *)
(* HOME for d in {1,7}, DELETE for 3, END for d in {4,8}, PAGE_UP for 5,   *)
(* PAGE_DOWN for 6, and for every other digit a value that is none of the  *)
(* mapped navigation keys.                                                 *)
(* (Stated of the calls made by the input loop.)                           *)
(***************************************************************************)
C7_DigitTilde ==
    [][(LoopReading /\ pc = "read3" /\ rd' = TILDE) =>
         IF seq1 \in DOMAIN DigitKeys
         THEN key' = DigitKeys[seq1]
         ELSE key' # NoKey /\ key' \notin NavigationKeys]_vars

(***************************************************************************)
(* C8.  When ESC '[' x is delivered with x in {A,B,C,D,H,F}, editorReadKey *)
(* returns ARROW_UP, ARROW_DOWN, ARROW_RIGHT, ARROW_LEFT, HOME, END        *)
(* respectively; when ESC 'O' x is delivered with x in {H,F} it returns    *)
(* HOME, END respectively.                                                 *)
(***************************************************************************)
C8_LetterSequences ==
    [][(pc = "read2" /\ IsByte(rd')) =>
         /\ (seq0 = LBRACKET /\ rd' = CH_A) => key' = ARROW_UP
         /\ (seq0 = LBRACKET /\ rd' = CH_B) => key' = ARROW_DOWN
         /\ (seq0 = LBRACKET /\ rd' = CH_C) => key' = ARROW_RIGHT
         /\ (seq0 = LBRACKET /\ rd' = CH_D) => key' = ARROW_LEFT
         /\ (seq0 = LBRACKET /\ rd' = CH_H) => key' = HOME_KEY
         /\ (seq0 = LBRACKET /\ rd' = CH_F) => key' = END_KEY
         /\ (seq0 = CH_O /\ rd' = CH_H) => key' = HOME_KEY
         /\ (seq0 = CH_O /\ rd' = CH_F) => key' = END_KEY]_vars

\* ESC '[' 'D' has been decoded as ARROW_LEFT.
C8_Witness ==
    pc = "render" /\ key = ARROW_LEFT /\ nread = 3 /\ rd = CH_D

(***************************************************************************)
(* C9.  After the escape byte has been read, if the read of the second     *)
(* byte, of the third byte, or of the fourth byte (ESC '[' digit branch)   *)
(* yields nothing, editorReadKey returns the literal escape key event      *)
(* 0x1B, having consumed only the bytes read before.                       *)
(***************************************************************************)
C9_TruncatedIsEscape ==
    [][(pc \in {"read1", "read2", "read3"} /\ NothingRead) =>
         (key' = ESC /\ nread' = nread /\ pc' \in {"render", "done"})]_vars

\* ESC '[' digit followed by a read timeout has been returned as the
\* literal escape.
C9_Witness ==
    pc = "render" /\ key = ESC /\ nread = 3 /\ rd = RdTimeout

(***************************************************************************)
(* C10 as stated.  For every fully delivered escape sequence that is not   *)
(* recognised (second byte neither '[' nor 'O'; ESC '[' followed by a      *)
(* non-digit byte outside {A,B,C,D,H,F}; ESC '[' digit followed by a byte  *)
(* other than '~'; ESC 'O' followed by a byte outside {H,F}),              *)
(* editorReadKey returns the literal escape key event 0x1B.  (Stated of    *)
(* the calls made by the input loop.)                                      *)
(***************************************************************************)
C10_UnrecognisedIsEscape ==
    /\ [][(LoopReading /\ pc = "read2" /\ IsByte(rd') /\ seq0 \notin {LBRACKET, CH_O}) =>
            key' = ESC]_vars
    /\ [][(LoopReading /\ pc = "read2" /\ IsByte(rd') /\ seq0 = LBRACKET
             /\ rd' \notin Digits \cup DOMAIN LetterKeys) => key' = ESC]_vars
    /\ [][(LoopReading /\ pc = "read3" /\ IsByte(rd') /\ rd' # TILDE) => key' = ESC]_vars
    /\ [][(LoopReading /\ pc = "read2" /\ IsByte(rd') /\ seq0 = CH_O
             /\ rd' \notin DOMAIN OKeys) => key' = ESC]_vars

(***************************************************************************)
(* Vocabulary of the frame properties.                                     *)
(***************************************************************************)
\* This step wrote a frame.
FrameWritten == pc = "read0" /\ frame # <<>>

\* pat is in s at position i.
OccursAt(pat, s, i) ==
    /\ i >= 1
    /\ i + Len(pat) - 1 <= Len(s)
    /\ SubSeq(s, i, i + Len(pat) - 1) = pat

\* The number of places of s where pat is.
CountOf(pat, s) == Cardinality({i \in 1 .. Len(s) : OccursAt(pat, s, i)})

(***************************************************************************)
(* C11.  For every viewport of R >= 1 rows and every document (no line,    *)
(* or one loaded line of any length), the frame holds exactly R - 1 row    *)
(* separators "\r\n", one after each row except the last, and exactly R    *)
(* erase-to-end-of-line sequences: every separator comes directly after an *)
(* erase sequence, and the one erase sequence without a separator is the   *)
(* last row's, followed directly by the cursor placement.                  *)
(***************************************************************************)
C11_RowSeparators ==
    (FrameWritten /\ screen_rows >= 1) =>
        /\ CountOf(RowSeparator, frame) = screen_rows - 1
        /\ CountOf(EraseLine, frame) = screen_rows
        /\ \A i \in 1 .. Len(frame) :
             OccursAt(RowSeparator, frame, i) => OccursAt(EraseLine, frame, i - 3)
        /\ \E i \in 1 .. Len(frame) :
             /\ OccursAt(EraseLine, frame, i)
             /\ OccursAt(CursorPosition(cy + 1, cx + 1), frame, i + 3)

\* A frame of four rows with a loaded line longer than the screen is wide.
C11_Witness ==
    /\ FrameWritten
    /\ screen_rows = 4
    /\ num_rows = 1
    /\ row_size > screen_cols

\* The bytes of the frame between the home sequence and the cursor placement:
\* what editorDrawRows appended.
FrameRows ==
    SubSeq(frame, Len(HideCursor) + Len(CursorHome) + 1,
           Len(frame) - Len(ShowCursor) - Len(CursorPosition(cy + 1, cx + 1)))

\* n copies of s.
RECURSIVE Repeat(_, _)
Repeat(s, n) == IF n <= 0 THEN <<>> ELSE s \o Repeat(s, n - 1)

(***************************************************************************)
(* C12 as stated.  When one line of length n <= cols is loaded, row 0 of   *)
(* the frame is exactly those n bytes followed by erase-to-end-of-line,    *)
(* and every other row 1 .. rows-1 is exactly the filler marker '~'        *)
(* followed by erase-to-end-of-line; the banner is emitted only when no    *)
(* line exists at all.                                                     *)
(***************************************************************************)
C12_LoadedLineRows ==
    (FrameWritten /\ screen_rows >= 1 /\ num_rows = 1 /\ row_size <= screen_cols) =>
        FrameRows = row_chars \o EraseLine
                      \o Repeat(RowSeparator \o <<TILDE>> \o EraseLine,
                                screen_rows - 1)

\* The positions of the row separators in what editorDrawRows appended.
SeparatorPositions ==
    {i \in 1 .. Len(FrameRows) : OccursAt(RowSeparator, FrameRows, i)}

\* The position of separator number n, counted from 1.
SeparatorAt(n) ==
    CHOOSE p \in SeparatorPositions :
        Cardinality({q \in SeparatorPositions : q < p}) = n - 1

\* Row y of the frame without its erase-to-end-of-line sequence: the
\* content bytes of that row.
FrameRow(y) ==
    LET first == IF y = 0 THEN 1 ELSE SeparatorAt(y) + Len(RowSeparator)
        last == IF y = screen_rows - 1
                THEN Len(FrameRows)
                ELSE SeparatorAt(y + 1) - 1
    IN  SubSeq(FrameRows, first, last - Len(EraseLine))

\* L = min(bannerLength, cols)
BannerShown == IF Len(Welcome) < screen_cols THEN Len(Welcome) ELSE screen_cols

\* (cols - L) / 2
BannerPadding == (screen_cols - BannerShown) \div 2

(***************************************************************************)
(* C13 as stated.  With an empty document, for every viewport size, row    *)
(* rows/3 of the frame consists of one filler marker '~' at column 0, then *)
(* (cols - L)/2 - 1 spaces, then the banner clamped to L = min(banner      *)
(* length, cols) bytes; the filler marker is on that row for every value   *)
(* of cols.                                                                *)
(***************************************************************************)
C13_BannerRow_Original ==
    (FrameWritten /\ screen_rows >= 1 /\ num_rows = 0) =>
        FrameRow(screen_rows \div 3) =
            <<TILDE>> \o Repeat(<<32>>, BannerPadding - 1)
                      \o SubSeq(Welcome, 1, BannerShown)

(***************************************************************************)
(* C13, amended.  With an empty document, for every viewport size in which *)
(* (cols - L)/2 >= 1, that is cols >= banner length + 2, row rows/3 of the *)
(* frame consists of one filler marker '~' at column 0, then               *)
(* (cols - L)/2 - 1 spaces, then the banner clamped to L = min(banner      *)
(* length, cols) bytes; when (cols - L)/2 = 0 the row consists of the      *)
(* clamped banner alone, without the filler marker.                        *)
(***************************************************************************)
C13_BannerRow ==
    (FrameWritten /\ screen_rows >= 1 /\ num_rows = 0) =>
        FrameRow(screen_rows \div 3) =
            IF BannerPadding >= 1
            THEN <<TILDE>> \o Repeat(<<32>>, BannerPadding - 1)
                           \o SubSeq(Welcome, 1, BannerShown)
            ELSE SubSeq(Welcome, 1, BannerShown)

\* The banner row of an empty document on a screen 33 columns wide: the
\* marker, one space and the whole banner.
C13_Witness ==
    /\ FrameWritten
    /\ num_rows = 0
    /\ screen_rows = 4
    /\ screen_cols = 33
    /\ Len(FrameRow(1)) = Len(Welcome) + 2

\* getWindowSize has taken its fallback and is reading the terminal's answer.
FallbackReading == caller = "getWindowSize" /\ pc \in ReadPcs

(***************************************************************************)
(* C14 as stated.  When the direct window-size query fails or reports zero *)
(* columns and the terminal answers the cursor-position request with the   *)
(* well-formed reply ESC '[' r ';' c 'R', the size query succeeds, the     *)
(* viewport is rows = r, cols = c, and startup continues to the first      *)
(* frame.  Here: while the fallback reads a reply that begins ESC '[' and  *)
(* two digits of r (as in ESC '[' 2 4 ';' 8 0 'R'), the process does not   *)
(* end.                                                                    *)
(***************************************************************************)
C14_FallbackSucceeds ==
    [][(FallbackReading /\ pc = "read3" /\ seq0 = LBRACKET /\ seq1 \in Digits
          /\ rd' \in Digits) =>
         (pc' # "done" /\ exitStatus' = Running)]_vars

(***************************************************************************)
(* C15 as stated.  Whenever getWindowSize reports success, the stored      *)
(* viewport has rows >= 1 and cols >= 1, for every result the operating    *)
(* system's query can return (one with zero rows and non-zero columns      *)
(* included); the stored viewport is never written again for the rest of   *)
(* the process lifetime.                                                   *)
(***************************************************************************)
C15_ViewportPositive ==
    /\ [](ViewportAccepted => (screen_rows >= 1 /\ screen_cols >= 1))
    /\ [][ViewportAccepted => UNCHANGED viewVars]_vars

\* The process has ended during startup: in enableRawMode, initEditor or
\* editorOpen, before the first frame.
StartupFailed == pc = "done" /\ caller = "getWindowSize"

(***************************************************************************)
(* C16 as stated.  If the window-size query fails (both strategies), or    *)
(* the terminal attribute capture or application (tcgetattr / tcsetattr)   *)
(* fails, the process never renders a frame afterwards, is never retried,  *)
(* and its exit status is 1; the exit status is 0 only on the quit path    *)
(* the user initiates.                                                     *)
(***************************************************************************)
C16_FatalStartup ==
    /\ [](StartupFailed => exitStatus = 1)
    /\ []((pc = "done" /\ hookFailed) => exitStatus = 1)
    /\ [](exitStatus = 0 => (caller = "editorProcessKeypress" /\ key = QuitByte))
    /\ [][FallbackReading => pc' \in ReadPcs \cup {"done"}]_vars
    /\ [][pc # "done"]_vars

\* A step of the input loop in which editorReadKey returns the key k and
\* editorProcessKeypress acts on it.
KeyEvent(k) == LoopReading /\ KeyReturns /\ key' = k

\* Viewport and document stay as they are.
ViewAndDocumentKept == UNCHANGED <<viewVars, docVars>>

(***************************************************************************)
(* C17.  Each arrow key event changes exactly one coordinate by exactly    *)
(* one cell in its direction when the cursor is not at that edge of the    *)
(* viewport, leaves both coordinates as they are when it is at that edge   *)
(* (no wrapping), and never changes the other coordinate; so cols          *)
(* ARROW_RIGHT events in a row from cx = 0 leave cx = cols - 1.            *)
(***************************************************************************)
C17_ArrowKeys ==
    /\ [][KeyEvent(ARROW_LEFT) =>
            /\ cx' = (IF cx = 0 THEN cx ELSE cx - 1)
            /\ cy' = cy]_vars
    /\ [][KeyEvent(ARROW_RIGHT) =>
            /\ cx' = (IF cx = screen_cols - 1 THEN cx ELSE cx + 1)
            /\ cy' = cy]_vars
    /\ [][KeyEvent(ARROW_UP) =>
            /\ cy' = (IF cy = 0 THEN cy ELSE cy - 1)
            /\ cx' = cx]_vars
    /\ [][KeyEvent(ARROW_DOWN) =>
            /\ cy' = (IF cy = screen_rows - 1 THEN cy ELSE cy + 1)
            /\ cx' = cx]_vars
    /\ [](ViewportAccepted =>
            MoveTimes(screen_cols, ARROW_RIGHT, <<0, cy>>) = <<screen_cols - 1, cy>>)

\* ESC '[' 'C' has been returned as ARROW_RIGHT and the cursor stands in
\* the last column of a viewport of two columns or more, below row 0.
C17_Witness ==
    /\ pc = "render"
    /\ key = ARROW_RIGHT
    /\ nread = 3
    /\ screen_cols >= 2
    /\ cx = screen_cols - 1
    /\ cy >= 1

\* The cursor is inside the viewport.
CursorInside ==
    /\ 0 <= cx /\ cx <= screen_cols - 1
    /\ 0 <= cy /\ cy <= screen_rows - 1

(***************************************************************************)
(* C18.  A PAGE_UP event applies the one-cell up-movement rows times and a *)
(* PAGE_DOWN event the one-cell down-movement rows times: from any cursor  *)
(* position in a viewport with rows >= 1, PAGE_UP leaves cy = 0,           *)
(* PAGE_DOWN leaves cy = rows - 1, and both leave cx as it is.             *)
(***************************************************************************)
C18_PageKeys ==
    /\ [][(KeyEvent(PAGE_UP) /\ screen_rows >= 1 /\ CursorInside) =>
            /\ cy' = 0
            /\ cx' = cx]_vars
    /\ [][(KeyEvent(PAGE_DOWN) /\ screen_rows >= 1 /\ CursorInside) =>
            /\ cy' = screen_rows - 1
            /\ cx' = cx]_vars

\* ESC '[' '6' '~' has been returned as PAGE_DOWN in a viewport of three
\* rows and the cursor stands in the last row.
C18_Witness ==
    /\ pc = "render"
    /\ key = PAGE_DOWN
    /\ nread = 4
    /\ screen_rows = 3
    /\ cy = 2

(***************************************************************************)
(* C19.  A HOME event sets cx = 0 and an END event sets cx = cols - 1,     *)
(* from any cursor position; both leave cy, the viewport and the document  *)
(* as they are, and both are idempotent: the same event once more leaves   *)
(* the state it produced.                                                  *)
(***************************************************************************)
C19_HomeEnd ==
    /\ [][KeyEvent(HOME_KEY) =>
            (cx' = 0 /\ cy' = cy /\ ViewAndDocumentKept)]_vars
    /\ [][KeyEvent(END_KEY) =>
            (cx' = screen_cols - 1 /\ cy' = cy /\ ViewAndDocumentKept)]_vars
    /\ []((pc = "render" /\ key \in {HOME_KEY, END_KEY}) =>
            CursorAfterKey(key) = <<cx, cy>>)

\* ESC '[' '4' '~' has been returned as END_KEY and the cursor stands in
\* the last column of a viewport of two columns, below row 0.
C19_Witness ==
    /\ pc = "render"
    /\ key = END_KEY
    /\ nread = 4
    /\ screen_cols = 2
    /\ cx = 1
    /\ cy >= 1

\* The key events editorProcessKeypress has a case for.
HandledKeys == {QuitByte, ARROW_LEFT, ARROW_RIGHT, ARROW_UP, ARROW_DOWN,
                PAGE_UP, PAGE_DOWN, HOME_KEY, END_KEY}

\* The step changes nothing of the editor's state and the loop goes on to
\* its next frame.
NoOpStep ==
    /\ UNCHANGED <<cursorVars, viewVars, docVars>>
    /\ pc' = "render"
    /\ exitStatus' = Running

(***************************************************************************)
(* C20 as stated.  Every key event other than quit, the four arrows,       *)
(* PAGE_UP, PAGE_DOWN, HOME and END (DELETE, the literal escape and every  *)
(* printable or control byte included, and also the result of an           *)
(* unrecognised ESC '[' digit '~' sequence) is a no-op: cx, cy, viewport   *)
(* and document are unchanged and the loop stays running, with a defined   *)
(* next state.                                                             *)
(***************************************************************************)
C20_OtherKeysNoOp ==
    /\ [][(LoopReading /\ KeyReturns /\ key' \notin HandledKeys) => NoOpStep]_vars
    /\ [][(LoopReading /\ pc = "read3" /\ rd' = TILDE /\ seq1 \notin DOMAIN DigitKeys) =>
            NoOpStep]_vars

\* The decimal digits of a number below 1000, most significant first.
Digits3(n) ==
    IF n < 10 THEN <<48 + n>>
    ELSE IF n < 100 THEN <<48 + (n \div 10), 48 + (n % 10)>>
    ELSE <<48 + (n \div 100), 48 + ((n \div 10) % 10), 48 + (n % 10)>>

\* The smaller of two numbers.
Min(a, b) == IF a < b THEN a ELSE b

(***************************************************************************)
(* C21.  Every frame editorRefreshScreen produces is the byte sequence     *)
(* hide-cursor, cursor-home, the rows from top to bottom, the absolute     *)
(* placement ESC '[' (cy+1) ';' (cx+1) 'H' of the current cursor, show-    *)
(* cursor, in that order, and one write call per loop iteration delivers   *)
(* it: the step from the head of the loop writes the whole frame, and only *)
(* that step writes one.  Of the rows: a loaded line is row 0, and a last  *)
(* row that is neither the line's nor row rows/3 is the filler marker.     *)
(***************************************************************************)
C21_FrameLayout ==
    /\ [](FrameWritten =>
            /\ frame = <<27, 91, 63, 50, 53, 108>> \o <<27, 91, 72>>
                         \o editorDrawRows(<<>>)
                         \o <<27, 91>> \o Digits3(cy + 1) \o <<59>>
                         \o Digits3(cx + 1) \o <<72>>
                         \o <<27, 91, 63, 50, 53, 104>>
            /\ (screen_rows >= 1 /\ num_rows = 1) =>
                  FrameRow(0) = SubSeq(row_chars, 1, Min(row_size, screen_cols))
            /\ (screen_rows >= 3) => FrameRow(screen_rows - 1) = <<TILDE>>)
    /\ [][pc = "render" => (pc' = "read0" /\ frame' # <<>>)]_vars
    /\ [][frame' # <<>> => pc = "render"]_vars

\* The frame after an END key on a screen 33 columns wide, cursor in row 2:
\* the placement has a column of two digits.
C21_Witness ==
    /\ FrameWritten
    /\ screen_cols = 33
    /\ cx = 32
    /\ cy = 1
    /\ screen_rows = 4
    /\ num_rows = 1

(***************************************************************************)
(* C22.  For every viewport with cols >= 1 and every document, each row of *)
(* the frame has at most cols content bytes before its erase-to-end-of-    *)
(* line sequence: a loaded line longer than cols is cut to its first cols  *)
(* bytes, and the filler row and the banner row (marker, padding and       *)
(* banner) never exceed cols bytes.                                        *)
(***************************************************************************)
C22_RowsFitWidth ==
    (FrameWritten /\ screen_cols >= 1) =>
        /\ \A y \in 0 .. screen_rows - 1 : Len(FrameRow(y)) <= screen_cols
        /\ (screen_rows >= 1 /\ num_rows = 1 /\ row_size > screen_cols) =>
              FrameRow(0) = SubSeq(row_chars, 1, screen_cols)

\* A frame whose line of three bytes is cut to the two columns of the
\* screen, with a banner row below it.
C22_Witness ==
    /\ FrameWritten
    /\ screen_cols = 2
    /\ screen_rows = 4
    /\ num_rows = 1
    /\ row_size = 3
    /\ FrameRow(0) = <<97, 98>>

(***************************************************************************)
(* C23.  In the input loop renders and key events strictly alternate,      *)
(* starting with a render: the loop is entered by a step that writes a     *)
(* frame; a frame is written only by the step at the head of an iteration, *)
(* which starts the read of a new key; no step of editorReadKey writes a   *)
(* frame, neither between the bytes of one key nor on a read that yields   *)
(* nothing; the step that ends a key's decoding goes on to the next render *)
(* (or to process exit); and the cursor changes only in the step that ends *)
(* the decoding.                                                           *)
(***************************************************************************)
C23_RenderKeyAlternation ==
    /\ [][(caller # "editorProcessKeypress" /\ caller' = "editorProcessKeypress") =>
            (pc = "render" /\ frame' # <<>>)]_vars
    /\ [][frame' # <<>> => (pc = "render" /\ pc' = "read0" /\ key' = NoKey /\ nread' = 0)]_vars
    /\ [][pc = "render" => (frame' # <<>> /\ UNCHANGED cursorVars)]_vars
    /\ [][LoopReading => frame' = <<>>]_vars
    /\ [][(LoopReading /\ KeyReturns) => pc' \in {"render", "done"}]_vars
    /\ [][(LoopReading /\ ~KeyReturns) =>
            (pc' \in ReadPcs \cup {"done"} /\ UNCHANGED cursorVars)]_vars

\* A frame written after a key event has moved the cursor: the second or a
\* later iteration of the loop.
C23_Witness ==
    /\ FrameWritten
    /\ cx = 1
    /\ cy = 2

(***************************************************************************)
(* C24.  Once editorReadKey has read the escape byte it returns after at   *)
(* most three further read attempts, whatever bytes or timeouts follow,    *)
(* and never loops waiting for the rest of an escape sequence: each read   *)
(* attempt after the escape byte either ends the call or moves on to the   *)
(* next of the three reads, and the third always ends the call.            *)
(***************************************************************************)
C24_BoundedEscapeReads ==
    /\ [][pc = "read1" => (pc' = "read2" \/ (KeyReturns /\ pc' \in {"render", "done"}))]_vars
    /\ [][pc = "read2" => (pc' = "read3" \/ (KeyReturns /\ pc' \in {"render", "done"}))]_vars
    /\ [][pc = "read3" => (KeyReturns /\ pc' \in {"render", "done"})]_vars
    /\ [](pc \in {"read1", "read2", "read3"} => nread = (CASE pc = "read1" -> 1
                                                          [] pc = "read2" -> 2
                                                          [] pc = "read3" -> 3))

\* ESC '[' '3' '~' has been returned as DEL_KEY: the call used all three
\* reads after the escape byte.
C24_Witness ==
    /\ pc = "render"
    /\ key = DEL_KEY
    /\ nread = 4
    /\ rd = TILDE

(***************************************************************************)
(* C25.  A read of the first byte of a key that times out with zero bytes  *)
(* produces no key event and changes no editor state (cursor, viewport,    *)
(* document, terminal mode); the read is tried again; and when a byte      *)
(* arrives the decoder returns a key event for it, in the same step or,    *)
(* for the escape byte, at the end of the escape decoding it starts.       *)
(***************************************************************************)
C25_TimeoutRetried ==
    /\ [][(pc = "read0" /\ rd' = RdTimeout) =>
            (/\ key' = NoKey
             /\ pc' = "read0"
             /\ nread' = nread
             /\ exitStatus' = Running
             /\ UNCHANGED <<cursorVars, viewVars, docVars, term>>)]_vars
    /\ [][(pc = "read0" /\ IsByte(rd')) => (KeyReturns \/ pc' = "read1")]_vars
    /\ (pc \in {"read1", "read2", "read3"}) ~> (key # NoKey)

\* The input loop's read of the first byte has timed out and is about to be
\* made again, in a viewport of three rows with a line loaded.
C25_Witness ==
    /\ LoopReading
    /\ pc = "read0"
    /\ rd = RdTimeout
    /\ retryParity = 1
    /\ screen_rows = 3
    /\ num_rows = 1

\* The bytes of the chunks of the calls cs, in call order: of all of them,
\* and of those whose realloc succeeded.
RECURSIVE AllBytes(_)
AllBytes(cs) ==
    IF cs = <<>> THEN <<>>
    ELSE SubSeq(cs[1][1], 1, cs[1][2]) \o AllBytes(Tail(cs))

RECURSIVE KeptBytes(_)
KeptBytes(cs) ==
    IF cs = <<>> THEN <<>>
    ELSE (IF cs[1][3] THEN SubSeq(cs[1][1], 1, cs[1][2]) ELSE <<>>)
             \o KeptBytes(Tail(cs))

\* s is the beginning of t.
IsPrefix(s, t) == Len(s) <= Len(t) /\ SubSeq(t, 1, Len(s)) = s

(***************************************************************************)
(* C26 as stated.  After any sequence of abAppend calls on one buffer,     *)
(* calls whose reallocation fails included, the buffer content equals the  *)
(* concatenation, in call order, of all chunks passed to abAppend, the     *)
(* bytes appended earlier are never changed, and editorRefreshScreen       *)
(* writes that entire content with one write call before discarding the    *)
(* buffer.                                                                 *)
(***************************************************************************)
C26_BufferIsConcatenation_Original ==
    /\ [](pc = "append" => abuf = AllBytes(calls))
    /\ [][(pc = "append" /\ pc' = "append") => IsPrefix(abuf, abuf')]_vars
    /\ [][(pc = "append" /\ pc' = "read0") =>
            (frame' = AllBytes(calls) /\ abuf' = <<>>)]_vars

(***************************************************************************)
(* C26, amended.  After any sequence of abAppend calls on one buffer, the  *)
(* buffer content equals the concatenation, in call order, of the chunks   *)
(* passed to the calls whose reallocation succeeded (a call whose          *)
(* reallocation fails appends nothing and leaves the buffer as it was),    *)
(* the bytes appended earlier are never changed, and editorRefreshScreen   *)
(* writes that entire content with one write call before discarding the    *)
(* buffer.                                                                 *)
(***************************************************************************)
C26_BufferIsConcatenation ==
    /\ [](pc = "append" => abuf = KeptBytes(calls))
    /\ [][(pc = "append" /\ pc' = "append") => IsPrefix(abuf, abuf')]_vars
    /\ [][(pc = "append" /\ pc' = "read0") =>
            (frame' = KeptBytes(calls) /\ frame' = abuf /\ abuf' = <<>>)]_vars

\* Three calls, the second with a failing realloc, and the write done: the
\* bytes written are the first and the third chunk.
C26_Witness ==
    /\ pc = "read0"
    /\ Len(calls) = 3
    /\ calls[1][3] /\ ~calls[2][3] /\ calls[3][3]
    /\ frame = SubSeq(calls[1][1], 1, calls[1][2]) \o SubSeq(calls[3][1], 1, calls[3][2])
    /\ abuf = <<>>


\* A byte has been delivered by the last read.
ByteArrived == IsByte(rd)

\* The first frame has been written, or the process has ended.
StartupFinished == frame # <<>> \/ pc = "done"

(***************************************************************************)
(* C27.  Startup always finishes: from process start, under fair           *)
(* scheduling, a run in which no byte ever arrives on standard input       *)
(* eventually writes its first frame or ends, also when the direct         *)
(* window-size query fails or reports zero columns and getWindowSize takes *)
(* its fallback path.  (A run that never finishes and never gets a byte    *)
(* violates it.)                                                           *)
(***************************************************************************)
C27_StartupFinishes == <>(ByteArrived \/ StartupFinished)


(***************************************************************************)
(* C28.  A read error (-1 with errno other than EAGAIN) on the first byte  *)
(* of a key is fatal: the process erases the screen, homes the cursor and  *)
(* exits with status 1, and no key event is returned or applied (cursor,   *)
(* viewport and document stay as they were).  A read error on the second,  *)
(* third or fourth byte of an escape sequence is not fatal: editorReadKey  *)
(* returns the literal escape key, and the input loop goes on to its next  *)
(* frame.                                                                  *)
(***************************************************************************)
C28_ReadErrors ==
    /\ [][(pc = "read0" /\ rd' = RdError) =>
            (/\ pc' = "done"
             /\ exitStatus' = 1
             /\ eraseCount' > eraseCount
             /\ homeCount' > homeCount
             /\ key' = NoKey
             /\ UNCHANGED <<cursorVars, viewVars, docVars>>)]_vars
    /\ [][(pc \in {"read1", "read2", "read3"} /\ rd' = RdError) =>
            (/\ key' = ESC
             /\ LoopReading => (pc' = "render" /\ exitStatus' = Running))]_vars

====
